---- MODULE Spec2Model ----
(***************************************************************************)
(* Model of the notification storage of z0rr0/mtbot (package db):          *)
(* nextAlarm, user.init, parseUserRow, loadUsers, Storage.{init, Start,    *)
(* Stop, Set, Close, notifications, flush}.                                *)
(*                                                                         *)
(* Time is counted in abstract units; one unit is at once the unit of a    *)
(* lead-time ("delay") and the size of the daylight-saving shift of the    *)
(* zone.  Strings are sequences of one-character strings.                  *)
(* Every Storage method holds the Storage mutex for its whole body (Set    *)
(* returns before locking only when it changes nothing), so each method is *)
(* one atomic action.  The lock itself, the goroutines of Serve, cmd.Serve *)
(* and serve, and the shutdown of main are in SpecServe and SpecMain.      *)
(***************************************************************************)
EXTENDS Integers, Sequences, FiniteSets, TLC

\* ------------------------------------------------------------------ bounds
MaxTime == 3        \* the clock runs over 0..MaxTime
MaxAnchor == 9      \* nextAlarm study: anchors range over 0..MaxAnchor
MaxNow == 14        \* nextAlarm study: reference times range over 0..MaxNow
MaxPeriod == 6      \* nextAlarm study: periods range over 1..MaxPeriod

\* ----------------------------------------------------------------- strings
Digits == <<"0", "1", "2", "3", "4", "5", "6", "7", "8", "9">>
DigitSet == {Digits[i] : i \in 1..10}
DigitVal(c) == (CHOOSE i \in 1..10 : Digits[i] = c) - 1

\* byte order of the characters used in names (for the row sort of flush)
CharCode(c) == CASE c = "a" -> 1 [] c = "b" -> 2 [] OTHER -> 0

RECURSIVE StrLess(_, _)
StrLess(s, t) ==
    IF t = <<>> THEN FALSE
    ELSE IF s = <<>> THEN TRUE
    ELSE IF CharCode(Head(s)) # CharCode(Head(t))
         THEN CharCode(Head(s)) < CharCode(Head(t))
         ELSE StrLess(Tail(s), Tail(t))

RECURSIVE TrimLeft(_)
TrimLeft(s) == IF s # <<>> /\ Head(s) = " " THEN TrimLeft(Tail(s)) ELSE s

RECURSIVE TrimRight(_)
TrimRight(s) ==
    IF s # <<>> /\ s[Len(s)] = " " THEN TrimRight(SubSeq(s, 1, Len(s) - 1)) ELSE s

\* strings.Trim(s, " ")
Trim(s) == TrimRight(TrimLeft(s))

\* strings.Split(s, sep) for a one-character separator
RECURSIVE Split(_, _)
Split(s, sep) ==
    IF \A i \in 1..Len(s) : s[i] # sep THEN <<s>>
    ELSE LET i == CHOOSE k \in 1..Len(s) :
                      s[k] = sep /\ \A m \in 1..(k - 1) : s[m] # sep
         IN  <<SubSeq(s, 1, i - 1)>> \o Split(SubSeq(s, i + 1, Len(s)), sep)

RECURSIVE Join(_, _)
\* strings.Join(parts, sep)
Join(parts, sep) ==
    IF parts = <<>> THEN <<>>
    ELSE IF Len(parts) = 1 THEN parts[1]
    ELSE parts[1] \o <<sep>> \o Join(Tail(parts), sep)

RECURSIVE AtoiVal(_)
AtoiVal(tok) ==
    IF tok = <<>> THEN 0
    ELSE AtoiVal(SubSeq(tok, 1, Len(tok) - 1)) * 10 + DigitVal(tok[Len(tok)])

\* strconv.Atoi on unsigned decimal text: fails on the empty string and on
\* any character that is not a digit
Atoi(tok) ==
    IF tok # <<>> /\ \A i \in 1..Len(tok) : tok[i] \in DigitSet
    THEN [ok |-> TRUE, val |-> AtoiVal(tok)]
    ELSE [ok |-> FALSE, val |-> 0]

RECURSIVE Itoa(_)
\* strconv.Itoa for a non-negative integer
Itoa(d) ==
    IF d < 10 THEN <<Digits[d + 1]>>
    ELSE Itoa(d \div 10) \o <<Digits[(d % 10) + 1]>>

\* ------------------------------------------------------------------- zones
DSTStart == 3       \* first instant of summer time in the zone "dst"
DSTEnd == 9        \* first instant after summer time in the zone "dst"

\* time.Time.Zone(): the UTC offset of location tz at instant t
ZoneOffset(tz, t) ==
    IF tz = "dst" /\ t >= DSTStart /\ t < DSTEnd THEN 1 ELSE 0

\* time.Time.Format(time.RFC3339): local wall clock and UTC offset
Format(tz, t) == <<t + ZoneOffset(tz, t), ZoneOffset(tz, t)>>

\* ---------------------------------------------------------------- nextAlarm
\* whole periods between the alarm and dt, without the rounding up
PeriodsFloor(diff, offset) == diff \div offset

\* the / and % of Go on integers: the quotient is cut towards zero and the
\* remainder has the sign of the dividend (b # 0)
Abs(a) == IF a < 0 THEN 0 - a ELSE a
Quo(a, b) == IF (a < 0) = (b < 0) THEN Abs(a) \div Abs(b) ELSE 0 - (Abs(a) \div Abs(b))
Rem(a, b) == a - b * Quo(a, b)

\* whole periods between the alarm and dt, rounded up
Periods(diff, offset) ==
    Quo(diff, offset) + (IF Rem(diff, offset) > 0 THEN 1 ELSE 0)

\* no spring/autumn correction
NoZoneShift(offsetBefore, offsetAfter) == 0

\* the spring/autumn correction: offset before minus offset after
ZoneShift(offsetBefore, offsetAfter) == offsetBefore - offsetAfter

nextAlarm(alarm, dt, offset, tz) ==
    IF alarm > dt THEN alarm
    ELSE LET diff == dt - alarm
             next == alarm + offset * Periods(diff, offset)
         IN  next + ZoneShift(ZoneOffset(tz, alarm), ZoneOffset(tz, next))

\* ------------------------------------------------------------ sequences
Range(s) == {s[i] : i \in DOMAIN s}

RECURSIVE SelectOnlyUser(_, _)
\* the entries that belong to name: the test of the loop turned around
SelectOnlyUser(s, name) ==
    IF s = <<>> THEN <<>>
    ELSE IF Head(s)[1] = name THEN <<Head(s)>> \o SelectOnlyUser(Tail(s), name)
    ELSE SelectOnlyUser(Tail(s), name)

RECURSIVE SelectUser(_, _)
\* the entries that do not belong to name, in order (the loops of Stop and Set)
SelectUser(s, name) ==
    IF s = <<>> THEN <<>>
    ELSE IF Head(s)[1] # name THEN <<Head(s)>> \o SelectUser(Tail(s), name)
    ELSE SelectUser(Tail(s), name)

\* one step of insertion sort: x moves left past the strictly greater elements
Insert(s, x, key) ==
    LET n == Cardinality({i \in 1..Len(s) : key[s[i]] <= key[x]})
    IN  SubSeq(s, 1, n) \o <<x>> \o SubSeq(s, n + 1, Len(s))

\* the slice left as it is
NoSort(s, key) == s

RECURSIVE SortBy(_, _)
\* sort.Slice(s, less by key).  Entries with equal keys keep their order, as
\* in the insertion sort Go runs on a short slice; sort.Slice itself leaves
\* the order of equal keys open.  The sorted front is bound to t, so that it
\* is computed once.
SortBy(s, key) ==
    IF s = <<>> THEN <<>>
    ELSE CHOOSE r \in {Insert(t, s[Len(s)], key) :
                           t \in {SortBy(SubSeq(s, 1, Len(s) - 1), key)}} : TRUE

RECURSIVE SortInts(_)
\* sort.Ints over the keys of the uniqDelays map
SortInts(S) ==
    IF S = {} THEN <<>>
    ELSE LET m == CHOOSE x \in S : \A y \in S : x <= y
         IN  <<m>> \o SortInts(S \ {m})

RECURSIVE SortNames(_)
\* the row order of flush: ascending by user name
SortNames(S) ==
    IF S = {} THEN <<>>
    ELSE LET m == CHOOSE x \in S : \A y \in S \ {x} : StrLess(x, y)
         IN  <<m>> \o SortNames(S \ {m})

\* ------------------------------------------------------------ parseUserRow
RECURSIVE ParseDelaysNoRange(_, _, _)
\* the loop over the delay tokens without the two range tests
ParseDelaysNoRange(toks, minD, maxD) ==
    IF toks = <<>> THEN [err |-> "", vals |-> {}]
    ELSE LET a == Atoi(Head(toks))
         IN  IF ~a.ok THEN [err |-> "not integer", vals |-> {}]
             ELSE LET r == ParseDelaysNoRange(Tail(toks), minD, maxD)
                  IN  IF r.err # "" THEN r
                      ELSE [err |-> "", vals |-> r.vals \cup {a.val}]

RECURSIVE ParseDelays(_, _, _)
\* the loop over the delay tokens: the first failing token decides the error
ParseDelays(toks, minD, maxD) ==
    IF toks = <<>> THEN [err |-> "", vals |-> {}]
    ELSE LET a == Atoi(Head(toks))
         IN  IF ~a.ok THEN [err |-> "not integer", vals |-> {}]
             ELSE IF minD > 0 /\ a.val < minD THEN [err |-> "too small", vals |-> {}]
             ELSE IF maxD > 0 /\ a.val > maxD THEN [err |-> "too large", vals |-> {}]
             ELSE LET r == ParseDelays(Tail(toks), minD, maxD)
                  IN  IF r.err # "" THEN r
                      ELSE [err |-> "", vals |-> r.vals \cup {a.val}]

parseUserRow(userItem, minD, maxD, maxDelays) ==
    IF Len(userItem) # 2 THEN [err |-> "row shape", name |-> <<>>, delays |-> <<>>]
    ELSE LET p == ParseDelays(Split(Trim(userItem[2]), " "), minD, maxD)
         IN  IF p.err # "" THEN [err |-> p.err, name |-> <<>>, delays |-> <<>>]
             ELSE IF maxDelays > 0 /\ Cardinality(p.vals) > maxDelays
                  THEN [err |-> "too many", name |-> <<>>, delays |-> <<>>]
             ELSE [err |-> "", name |-> Trim(userItem[1]), delays |-> SortInts(p.vals)]

\* user.stringDelays
stringDelays(delays) == Join([i \in DOMAIN delays |-> Itoa(delays[i])], " ")

\* the text flush writes for a user map: one line "name,delays" per user
\* (encoding/csv with fields that need no quoting), sorted by name
FlushRows(um) ==
    LET names == SortNames(DOMAIN um)
    IN  [i \in DOMAIN names |-> Join(<<names[i], stringDelays(um[names[i]])>>, ",")]

RECURSIVE LoadRows(_)
\* the loop of loadUsers over the records of the file
LoadRows(lines) ==
    IF lines = <<>> THEN [err |-> "", users |-> <<>>]
    ELSE LET r == parseUserRow(Split(Head(lines), ","), 0, 0, 0)
         IN  IF r.err # "" THEN [err |-> r.err, users |-> <<>>]
             ELSE LET rest == LoadRows(Tail(lines))
                  IN  IF rest.err # "" THEN rest
                      ELSE [err |-> "",
                            users |-> <<[name |-> r.name, delays |-> r.delays]>>
                                      \o rest.users]

loadUsers(f) == LoadRows(f)

\* ------------------------------------------------------------------ state
VARIABLES
    events,     \* Storage.events: the catalog, <<[alarm, offset, tz], ...>>
    limits,     \* Storage.limits: [Users, Delays, MinDelay, MaxDelay]
    users,      \* Storage.users: name -> the user's delays (ascending)
    userIdx,    \* Storage.userIdx: name -> sequence of entry references
    items,      \* Storage.items: sequence of entry references
    ts,         \* the timestamp field of every referenced userEvent
    file,       \* the lines of the users file
    clock,      \* time.Now()
    last,       \* the last step: [op, err, out, pre]
    na,         \* a call of nextAlarm studied on its own
    sv          \* the goroutines of Serve: ticker loop, channel, workers

vars == <<events, limits, users, userIdx, items, ts, file, clock, last, na, sv>>

\* A userEvent is referenced as <<user, index of its event, delay, gen>>.
\* gen tells the entries Set has built but not spliced into items (1) from
\* those of items (0): the two slices then hold different objects for the
\* same (user, event, delay).
UserNames == {<<"a">>, <<"b">>}

Put(f, k, v) == [x \in (DOMAIN f) \cup {k} |-> IF x = k THEN v ELSE f[x]]
Del(f, k) == [x \in (DOMAIN f) \ {k} |-> f[x]]
Ids(recs) == [k \in DOMAIN recs |-> recs[k].id]
Live(its, idx) == Range(its) \cup UNION {Range(idx[u]) : u \in DOMAIN idx}

\* the heap after a call: the live entries, fresh ones with their timestamp
Heap(its, idx, old, fresh) ==
    [id \in Live(its, idx) |->
        IF \E k \in DOMAIN fresh : fresh[k].id = id
        THEN (CHOOSE r \in Range(fresh) : r.id = id).t
        ELSE old[id]]

\* Event.Init: the first alarm of an event whose configured weekday and time
\* fall on instant c.base of the current week
EventInit(c, now) ==
    [alarm |-> nextAlarm(c.base, now, c.period, c.tz), offset |-> c.period, tz |-> c.tz]

\* user.init: one entry per event and delay, sorted by timestamp
userInit(name, delays, now, gen, evs) ==
    LET nd == Len(delays)
        raw == [k \in 1..(Len(evs) * nd) |->
                   LET j == ((k - 1) \div nd) + 1
                       d == delays[((k - 1) % nd) + 1]
                   IN  [id |-> <<name, j, d, gen>>,
                        t |-> nextAlarm(evs[j].alarm, now, evs[j].offset, evs[j].tz) - d]]
    IN  SortBy(raw, [r \in Range(raw) |-> r.t])

RECURSIVE InitLoop(_, _, _, _)
\* the loop of Storage.init over the loaded users
InitLoop(us, now, evs, acc) ==
    IF us = <<>> THEN acc
    ELSE LET u == Head(us)
             it == userInit(u.name, u.delays, now, 0, evs)
         IN  InitLoop(Tail(us), now, evs,
                 [users |-> Put(acc.users, u.name, u.delays),
                  userIdx |-> Put(acc.userIdx, u.name, Ids(it)),
                  recs |-> acc.recs \o it])

\* Storage.init
StorageInit(us, now, evs) ==
    LET acc == InitLoop(us, now, evs, [users |-> <<>>, userIdx |-> <<>>, recs |-> <<>>])
        sorted == SortBy(acc.recs, [r \in Range(acc.recs) |-> r.t])
    IN  [users |-> acc.users, userIdx |-> acc.userIdx, items |-> Ids(sorted),
         ts |-> [id \in Range(Ids(sorted)) |-> (CHOOSE r \in Range(sorted) : r.id = id).t]]

\* the outcome of flush: the file is rewritten, or OpenFile fails and the
\* file stays as it was
FlushOutcomes == {"ok", "open"}
Flushed(um, fl) == IF fl = "ok" THEN FlushRows(um) ELSE file
FlushErr(fl) == IF fl = "ok" THEN "" ELSE "flush"

\* what a call returned: its error ("" for nil) and its messages; pre is the
\* registry a Start saw before it added its user
NoPre == [user |-> <<>>]
Ret(op, err, out) == [op |-> op, err |-> err, out |-> out, pre |-> NoPre]

\* a call that returns err before it changes anything
Fail(op, err) ==
    /\ last' = Ret(op, err, <<>>)
    /\ UNCHANGED <<events, limits, users, userIdx, items, ts, file, clock, na>>

\* ------------------------------------------------------------------- start
\* the event sections of the configuration file
OneEvent == <<[base |-> 1, period |-> 2, tz |-> "dst"]>>
TwoEvents == <<[base |-> 1, period |-> 2, tz |-> "dst"], [base |-> 2, period |-> 3, tz |-> "utc"]>>

\* Config.isValid: every limit is at least 1 and MaxDelay >= MinDelay
isValid(l) ==
    l.Users >= 1 /\ l.Delays >= 1 /\ l.MinDelay >= 1 /\ l.MaxDelay >= l.MinDelay

\* the limits sections of the configuration file
OneDelay == [Users |-> 2, Delays |-> 2, MinDelay |-> 2, MaxDelay |-> 2]
DelayRange == [Users |-> 1, Delays |-> 2, MinDelay |-> 1, MaxDelay |-> 2]

\* the configurations the storage is started with
Configs ==
    {c \in { [events |-> OneEvent, limits |-> OneDelay],
             [events |-> OneEvent, limits |-> DelayRange],
             [events |-> TwoEvents, limits |-> DelayRange] } : isValid(c.limits)}

\* users files left by earlier runs (loadUsers ignores the limits)
InitDelays == {<<>>, <<1, 3>>}
InitProfiles == UNION {[S -> InitDelays] : S \in SUBSET UserNames}

NaIdle == [phase |-> "idle"]

\* Serve has not been called
SvIdle == [pc |-> "idle"]

\* config.New and db.New at instant 0, for configuration c and the users
\* file of the profiles p
InitWith(c, p) ==
    LET ld == loadUsers(FlushRows(p))
        evs == [j \in DOMAIN c.events |-> EventInit(c.events[j], 0)]
        s == StorageInit(ld.users, 0, evs)
    IN  /\ ld.err = ""
        /\ events = evs
        /\ limits = c.limits
        /\ users = s.users
        /\ userIdx = s.userIdx
        /\ items = s.items
        /\ ts = s.ts
        /\ file = FlushRows(p)
        /\ clock = 0
        /\ last = Ret("New", "", <<>>)
        /\ na = NaIdle
        /\ sv = SvIdle

Init == \E c \in Configs, p \in InitProfiles : InitWith(c, p)

\* ----------------------------------------------------------------- actions
\* Start with > for >= in the test of the limit
StartOffByOne(userName) ==
    IF Cardinality(DOMAIN users) > limits.Users
    THEN Fail("Start", "too many users")
    ELSE IF userName \in DOMAIN users
    THEN Fail("Start", "known user")
    ELSE \E fl \in FlushOutcomes :
            /\ users' = Put(users, userName, <<>>)
            /\ userIdx' = Put(userIdx, userName, <<>>)
            /\ file' = Flushed(users', fl)
            /\ last' = [Ret("Start", FlushErr(fl), <<>>) EXCEPT !.pre =
                            [user |-> userName, users |-> users, userIdx |-> userIdx,
                             items |-> items, ts |-> ts, file |-> file]]
            /\ UNCHANGED <<events, limits, items, ts, clock, na>>

\* Storage.Start
StartCall(userName) ==
    IF Cardinality(DOMAIN users) >= limits.Users
    THEN Fail("Start", "too many users")
    ELSE IF userName \in DOMAIN users
    THEN Fail("Start", "known user")
    ELSE \E fl \in FlushOutcomes :
            /\ users' = Put(users, userName, <<>>)
            /\ userIdx' = Put(userIdx, userName, <<>>)
            /\ file' = Flushed(users', fl)
            /\ last' = [Ret("Start", FlushErr(fl), <<>>) EXCEPT !.pre =
                            [user |-> userName, users |-> users, userIdx |-> userIdx,
                             items |-> items, ts |-> ts, file |-> file]]
            /\ UNCHANGED <<events, limits, items, ts, clock, na>>

\* a call of Start on its own
Start(userName) == StartCall(userName) /\ UNCHANGED sv

\* Stop without delete(s.userIdx, userName)
StopKeepsIndex(userName) ==
    IF userName \notin DOMAIN users
    THEN Fail("Stop", "unknown user")
    ELSE \E fl \in FlushOutcomes :
            /\ users' = Del(users, userName)
            /\ userIdx' = userIdx
            /\ ts' = Heap(SelectUser(items, userName), userIdx', ts, <<>>)
            /\ items' = SortBy(SelectUser(items, userName), ts')
            /\ file' = Flushed(users', fl)
            /\ last' = Ret("Stop", FlushErr(fl), <<>>)
            /\ UNCHANGED <<events, limits, clock, na>>

\* Storage.Stop
StopCall(userName) ==
    IF userName \notin DOMAIN users
    THEN Fail("Stop", "unknown user")
    ELSE \E fl \in FlushOutcomes :
            /\ users' = Del(users, userName)
            /\ userIdx' = Del(userIdx, userName)
            /\ ts' = Heap(SelectUser(items, userName), userIdx', ts, <<>>)
            /\ items' = SortBy(SelectUser(items, userName), ts')
            /\ file' = Flushed(users', fl)
            /\ last' = Ret("Stop", FlushErr(fl), <<>>)
            /\ UNCHANGED <<events, limits, clock, na>>

\* a call of Stop on its own
Stop(userName) == StopCall(userName) /\ UNCHANGED sv

\* the parameter texts of /set that are tried
RawInputs ==
    { <<>>, <<"2">>, <<"x">>, <<"2", " ", "1">>,
      <<"2", " ", "2", " ", "1">>, <<" ", "2", " ", "2">>, <<"2", " ", " ", "2">> }

\* the call of parseUserRow in Set: s.limits.MaxDelay is passed for minD and
\* s.limits.MinDelay for maxD; the name it returns is dropped. Evaluated once
\* for every parameter text and every limits section.
SetRows ==
    [v \in RawInputs, l \in {c.limits : c \in Configs} |->
        parseUserRow(<<<<>>, v>>, l.MaxDelay, l.MinDelay, l.Delays)]
SetRow(values) == SetRows[values, limits]

\* Set without the lookup of the user
SetAnyUser(userName, values) ==
    IF values = <<>>
    THEN Fail("Set", "no params")
    ELSE LET r == SetRow(values)
         IN  IF r.err # ""
             THEN Fail("Set", r.err)
             ELSE \E fl \in FlushOutcomes :
                    LET fresh == userInit(userName, r.delays, clock,
                                          IF fl = "ok" THEN 0 ELSE 1, events)
                        spliced == SelectUser(items, userName) \o Ids(fresh)
                    IN  /\ users' = Put(users, userName, r.delays)
                        /\ userIdx' = Put(userIdx, userName, Ids(fresh))
                        /\ file' = Flushed(users', fl)
                        /\ IF fl = "ok"
                           THEN /\ ts' = Heap(spliced, userIdx', ts, fresh)
                                /\ items' = SortBy(spliced, ts')
                           ELSE /\ ts' = Heap(items, userIdx', ts, fresh)
                                /\ items' = items
                        /\ last' = Ret("Set", FlushErr(fl), <<>>)
                        /\ UNCHANGED <<events, limits, clock, na>>

\* Storage.Set
SetCall(userName, values) ==
    IF values = <<>>
    THEN Fail("Set", "no params")
    ELSE IF userName \notin DOMAIN users
    THEN Fail("Set", "unknown user")
    ELSE LET r == SetRow(values)
         IN  IF r.err # ""
             THEN Fail("Set", r.err)
             ELSE \E fl \in FlushOutcomes :
                    LET fresh == userInit(userName, r.delays, clock,
                                          IF fl = "ok" THEN 0 ELSE 1, events)
                        spliced == SelectUser(items, userName) \o Ids(fresh)
                    IN  /\ users' = Put(users, userName, r.delays)
                        /\ userIdx' = Put(userIdx, userName, Ids(fresh))
                        /\ file' = Flushed(users', fl)
                        /\ IF fl = "ok"
                           THEN /\ ts' = Heap(spliced, userIdx', ts, fresh)
                                /\ items' = SortBy(spliced, ts')
                           ELSE /\ ts' = Heap(items, userIdx', ts, fresh)
                                /\ items' = items
                        /\ last' = Ret("Set", FlushErr(fl), <<>>)
                        /\ UNCHANGED <<events, limits, clock, na>>

\* a call of Set on its own
Set(userName, values) == SetCall(userName, values) /\ UNCHANGED sv

\* Storage.Close
CloseCall ==
    \E fl \in FlushOutcomes :
        /\ file' = Flushed(users, fl)
        /\ last' = Ret("Close", FlushErr(fl), <<>>)
        /\ UNCHANGED <<events, limits, users, userIdx, items, ts, clock, na>>

\* a call of Close on its own
Close == CloseCall /\ UNCHANGED sv

\* userEvent.Message
Message(id, t) ==
    [user |-> id[1], event |-> id[2], start |-> Format(events[id[2]].tz, t + id[3])]

\* !i.timestamp.After(now)
IsDueOrNow(t, now) == t <= now

\* i.timestamp.Before(now)
IsDue(t, now) == t < now

\* how far the loop of notifications gets before its break
DuePrefix(its, tsf, now) ==
    LET stop == {k \in 1..Len(its) : ~IsDue(tsf[its[k]], now)}
    IN  IF stop = {} THEN Len(its)
        ELSE (CHOOSE k \in stop : \A m \in stop : k <= m) - 1

\* Storage.notifications
notificationsCall ==
    LET n == DuePrefix(items, ts, clock)
        sent == {items[k] : k \in 1..n}
    IN  /\ ts' = [id \in DOMAIN ts |->
                    IF id \in sent THEN ts[id] + events[id[2]].offset ELSE ts[id]]
        /\ items' = SortBy(items, ts')
        /\ last' = Ret("notifications", "",
                        [k \in 1..n |-> Message(items[k], ts[items[k]])])
        /\ UNCHANGED <<events, limits, users, userIdx, file, clock, na>>

\* a call of notifications on its own
notifications == notificationsCall /\ UNCHANGED sv

\* time passes
Tick ==
    /\ clock < MaxTime
    /\ clock' = clock + 1
    /\ last' = Ret("Tick", "", <<>>)
    /\ UNCHANGED <<events, limits, users, userIdx, items, ts, file, na, sv>>

Next ==
    \/ \E u \in UserNames : Start(u)
    \/ \E u \in UserNames : Stop(u)
    \/ \E u \in UserNames, v \in RawInputs : Set(u, v)
    \/ Close
    \/ notifications
    \/ Tick

Spec == Init /\ [][Next]_vars

\* Storage.Get: the text it returns, as the line of the delays and one line
\* per entry of the per-user index, in the order of the index
GetCall(userName) ==
    IF userName \notin DOMAIN users
    THEN Fail("Get", "unknown user")
    ELSE /\ last' = Ret("Get", "",
                IF users[userName] = <<>>
                THEN [text |-> "You have not notifications",
                      params |-> <<>>, lines |-> <<>>]
                ELSE [text |-> "Your parameters",
                      params |-> stringDelays(users[userName]),
                      lines |-> [k \in DOMAIN userIdx[userName] |->
                                    LET id == userIdx[userName][k]
                                    IN  Format(events[id[2]].tz, ts[id])]])
         /\ UNCHANGED <<events, limits, users, userIdx, items, ts, file, clock, na>>

\* a call of Get on its own
Get(userName) == GetCall(userName) /\ UNCHANGED sv

\* the commands and the ticker, with /get
NextGet ==
    \/ Next
    \/ \E u \in UserNames : Get(u)

SpecGet == Init /\ [][NextGet]_vars

\* -------------------------------------------------------------------- Serve
Workers == 2        \* Settings.Workers

NoMsg == [uid |-> 0]
Storage == <<events, limits, users, userIdx, items, ts, file, clock, na>>

\* Serve: the channel is made, the ticker goroutine and the workers start.
\* batch is the rest of the slice the ticker goroutine is sending, hold the
\* message a worker has received, tried the number of Send calls for every
\* message notifications has returned so far, failed whether a Send has
\* returned an error, cancel where the ticker goroutine was when ctx was cancelled.
ServeCall ==
    /\ sv = SvIdle
    /\ sv' = [pc |-> "select", batch |-> <<>>,
              hold |-> [w \in 1..Workers |-> NoMsg], tried |-> <<>>,
              failed |-> FALSE, exited |-> {}, cancel |-> "no", closed |-> FALSE]
    /\ UNCHANGED <<Storage, last>>

\* case <-ticker.C: notifications is called and the loop over items begins
Collect ==
    /\ sv # SvIdle
    /\ sv.pc = "select"
    /\ notificationsCall
    /\ sv' = [sv EXCEPT !.batch = last'.out,
                        !.tried = sv.tried \o [k \in DOMAIN last'.out |-> 0],
                        !.pc = IF last'.out = <<>> THEN "select" ELSE "push"]

\* notifier <- items[i] meets the receive of worker w: the channel has no
\* buffer
Hand(w) ==
    /\ sv # SvIdle
    /\ sv.pc = "push"
    /\ w \notin sv.exited
    /\ sv.hold[w] = NoMsg
    /\ sv' = [sv EXCEPT !.hold[w] = [uid |-> Len(sv.tried) - Len(sv.batch) + 1,
                                     msg |-> Head(sv.batch)],
                        !.batch = Tail(sv.batch),
                        !.pc = IF Tail(sv.batch) = <<>> THEN "select" ELSE "push"]
    /\ UNCHANGED <<Storage, last>>

\* m.Send() in worker w returns nil or an error, which is logged
Send(w) ==
    /\ sv # SvIdle
    /\ sv.hold[w] # NoMsg
    /\ \E err \in BOOLEAN :
          sv' = [sv EXCEPT !.tried[sv.hold[w].uid] = @ + 1,
                           !.failed = @ \/ err,
                           !.hold[w] = NoMsg]
    /\ UNCHANGED <<Storage, last>>

\* ctx is cancelled
Cancel ==
    /\ sv # SvIdle
    /\ sv.cancel = "no"
    /\ sv.pc # "done"
    /\ sv' = [sv EXCEPT !.cancel = sv.pc]
    /\ UNCHANGED <<Storage, last>>

\* the ticker goroutine returns in its loop although items are left
ProducerDoneEarly ==
    /\ sv # SvIdle
    /\ sv.pc \in {"select", "push"}
    /\ sv.cancel # "no"
    /\ sv' = [sv EXCEPT !.pc = "done", !.closed = TRUE]
    /\ UNCHANGED <<Storage, last>>

\* case <-ctx.Done(): the ticker goroutine returns and closes notifier
ProducerDone ==
    /\ sv # SvIdle
    /\ sv.pc = "select"
    /\ sv.cancel # "no"
    /\ sv' = [sv EXCEPT !.pc = "done", !.closed = TRUE]
    /\ UNCHANGED <<Storage, last>>

\* the range over the closed notifier ends in worker w: wg.Done()
WorkerExit(w) ==
    /\ sv # SvIdle
    /\ sv.closed
    /\ sv.hold[w] = NoMsg
    /\ w \notin sv.exited
    /\ sv' = [sv EXCEPT !.exited = @ \cup {w}]
    /\ UNCHANGED <<Storage, last>>

NextServe ==
    \/ ServeCall
    \/ Collect
    \/ \E w \in 1..Workers : Hand(w)
    \/ \E w \in 1..Workers : Send(w)
    \/ Cancel
    \/ ProducerDone
    \/ \E w \in 1..Workers : WorkerExit(w)
    \/ Tick

\* Serve does not read the limits: one limits section is enough
InitServe == Init /\ limits = DelayRange

SpecServe == InitServe /\ [][NextServe]_vars

\* --------------------------------------------------------------------- main
CmdWorkers == 1     \* cmd.Settings.Workers
MaxCmds == 2        \* the commands the bot delivers before the signal

\* the packages serve puts on the commands channel
Commands ==
    {[cmd |-> c, user |-> <<"a">>, values |-> <<>>] : c \in {"/start", "/stop", "/get"}}
        \cup {[cmd |-> "/set", user |-> <<"a">>, values |-> v] : v \in {<<"2">>, <<"x">>}}

NoPkg == [cmd |-> ""]
\* the writer is a command worker (1..CmdWorkers), the ticker goroutine or
\* nobody
TickerId == 0 - 1
Nobody == 0
FreeLock == [writer |-> Nobody, readers |-> {}]

\* sync.RWMutex: Lock and RLock can go through
CanLock(l) == l.writer = Nobody /\ l.readers = {}
CanRLock(l) == l.writer = Nobody

\* main: db.Serve, cmd.Serve and go serve have been called. Next to the
\* fields of Serve: lock is Storage's RWMutex, cmd the position and the
\* package of every command worker, cmdExited the command workers that have
\* left, cmdClosed whether commands is closed, serve the position of the
\* serve goroutine, sentCmds the packages it has sent, main the position of
\* main.
MainCall ==
    /\ sv = SvIdle
    /\ sv' = [pc |-> "select", batch |-> <<>>,
              hold |-> [w \in 1..Workers |-> NoMsg], tried |-> <<>>,
              failed |-> FALSE, exited |-> {}, cancel |-> "no", closed |-> FALSE,
              lock |-> FreeLock,
              cmd |-> [j \in 1..CmdWorkers |-> [pc |-> "range", pkg |-> NoPkg]],
              cmdExited |-> {}, cmdClosed |-> FALSE,
              serve |-> "loop", sentCmds |-> 0, main |-> "waitDB"]
    /\ UNCHANGED <<Storage, last>>

\* case <-ticker.C: notifications takes the write lock
TickerLock ==
    /\ sv # SvIdle
    /\ sv.pc = "select"
    /\ CanLock(sv.lock)
    /\ sv' = [sv EXCEPT !.pc = "locked", !.lock.writer = TickerId]
    /\ UNCHANGED <<Storage, last>>

\* notifications without its deferred Unlock
TickerCollectKeepsLock ==
    /\ sv # SvIdle
    /\ sv.pc = "locked"
    /\ notificationsCall
    /\ sv' = [sv EXCEPT !.batch = last'.out,
                        !.tried = sv.tried \o [k \in DOMAIN last'.out |-> 0],
                        !.pc = IF last'.out = <<>> THEN "select" ELSE "push"]

\* notifications runs and returns, its deferred Unlock with it; the loop over
\* items begins
TickerCollect ==
    /\ sv # SvIdle
    /\ sv.pc = "locked"
    /\ notificationsCall
    /\ sv' = [sv EXCEPT !.batch = last'.out,
                        !.tried = sv.tried \o [k \in DOMAIN last'.out |-> 0],
                        !.pc = IF last'.out = <<>> THEN "select" ELSE "push",
                        !.lock.writer = Nobody]

\* commands <- cmd.Package{...} in serve meets the receive of command
\* worker j
CmdReceive(j, p) ==
    /\ sv # SvIdle
    /\ sv.serve = "loop"
    /\ sv.sentCmds < MaxCmds
    /\ j \notin sv.cmdExited
    /\ sv.cmd[j].pc = "range"
    /\ sv' = [sv EXCEPT !.cmd[j] = [pc |-> "handle", pkg |-> p],
                        !.sentCmds = @ + 1]
    /\ UNCHANGED <<Storage, last>>

\* the Storage method of the handler takes the lock: RLock in Get, Lock in
\* the others
CmdLock(j) ==
    /\ sv # SvIdle
    /\ sv.cmd[j].pc = "handle"
    /\ IF sv.cmd[j].pkg.cmd = "/get"
       THEN /\ CanRLock(sv.lock)
            /\ sv' = [sv EXCEPT !.cmd[j].pc = "locked", !.lock.readers = @ \cup {j}]
       ELSE /\ CanLock(sv.lock)
            /\ sv' = [sv EXCEPT !.cmd[j].pc = "locked", !.lock.writer = j]
    /\ UNCHANGED <<Storage, last>>

\* the Storage method without its deferred unlock
CmdCallKeepsLock(j) ==
    /\ sv # SvIdle
    /\ sv.cmd[j].pc = "locked"
    /\ LET p == sv.cmd[j].pkg
       IN  CASE p.cmd = "/start" -> StartCall(p.user)
             [] p.cmd = "/stop" -> StopCall(p.user)
             [] p.cmd = "/get" -> GetCall(p.user)
             [] p.cmd = "/set" -> SetCall(p.user, p.values)
    /\ sv' = [sv EXCEPT !.cmd[j].pc = "reply"]

\* the Storage method runs and returns, its deferred unlock with it
CmdCall(j) ==
    /\ sv # SvIdle
    /\ sv.cmd[j].pc = "locked"
    /\ LET p == sv.cmd[j].pkg
       IN  CASE p.cmd = "/start" -> StartCall(p.user)
             [] p.cmd = "/stop" -> StopCall(p.user)
             [] p.cmd = "/get" -> GetCall(p.user)
             [] p.cmd = "/set" -> SetCall(p.user, p.values)
    /\ sv' = [sv EXCEPT !.cmd[j].pc = "reply",
                        !.lock = IF sv.cmd[j].pkg.cmd = "/get"
                                 THEN [@ EXCEPT !.readers = @ \ {j}]
                                 ELSE [@ EXCEPT !.writer = Nobody]]

\* s.Send(...) of the handler: the reply goes to the transport and the
\* worker is back at its range
CmdReply(j) ==
    /\ sv # SvIdle
    /\ sv.cmd[j].pc = "reply"
    /\ sv' = [sv EXCEPT !.cmd[j] = [pc |-> "range", pkg |-> NoPkg]]
    /\ UNCHANGED <<Storage, last>>

\* the range over the closed commands ends in command worker j: wg.Done()
CmdExit(j) ==
    /\ sv # SvIdle
    /\ sv.cmdClosed
    /\ sv.cmd[j].pc = "range"
    /\ j \notin sv.cmdExited
    /\ sv' = [sv EXCEPT !.cmdExited = @ \cup {j}]
    /\ UNCHANGED <<Storage, last>>

\* case s := <-sigint: serve returns; its deferred function closes commands
SignalTaken ==
    /\ sv # SvIdle
    /\ sv.serve = "loop"
    /\ sv' = [sv EXCEPT !.serve = "return", !.cmdClosed = TRUE]
    /\ UNCHANGED <<Storage, last>>

\* cancel() at the end of the deferred function of serve
ServeCancel ==
    /\ sv # SvIdle
    /\ sv.serve = "return"
    /\ sv' = [sv EXCEPT !.serve = "done", !.cancel = sv.pc]
    /\ UNCHANGED <<Storage, last>>

\* wgDB.Wait() returns
MainWaitDB ==
    /\ sv # SvIdle
    /\ sv.main = "waitDB"
    /\ sv.exited = 1..Workers
    /\ sv' = [sv EXCEPT !.main = "waitCmd"]
    /\ UNCHANGED <<Storage, last>>

\* main without wgCmd.Wait()
MainWaitCmdSkipped ==
    /\ sv # SvIdle
    /\ sv.main = "waitCmd"
    /\ sv' = [sv EXCEPT !.main = "close"]
    /\ UNCHANGED <<Storage, last>>

\* wgCmd.Wait() returns
MainWaitCmd ==
    /\ sv # SvIdle
    /\ sv.main = "waitCmd"
    /\ sv.cmdExited = 1..CmdWorkers
    /\ sv' = [sv EXCEPT !.main = "close"]
    /\ UNCHANGED <<Storage, last>>

\* s.Close(): Lock, flush, Unlock; main returns
MainClose ==
    /\ sv # SvIdle
    /\ sv.main = "close"
    /\ CanLock(sv.lock)
    /\ CloseCall
    /\ sv' = [sv EXCEPT !.main = "stopped"]

NextMain ==
    \/ MainCall
    \/ TickerLock
    \/ TickerCollect
    \/ \E w \in 1..Workers : Hand(w)
    \/ \E w \in 1..Workers : Send(w)
    \/ ProducerDone
    \/ \E w \in 1..Workers : WorkerExit(w)
    \/ \E j \in 1..CmdWorkers, p \in Commands : CmdReceive(j, p)
    \/ \E j \in 1..CmdWorkers : CmdLock(j)
    \/ \E j \in 1..CmdWorkers : CmdCall(j)
    \/ \E j \in 1..CmdWorkers : CmdReply(j)
    \/ \E j \in 1..CmdWorkers : CmdExit(j)
    \/ SignalTaken
    \/ ServeCancel
    \/ MainWaitDB
    \/ MainWaitCmd
    \/ MainClose

\* one limits section, under which Set can succeed, and both users with
\* delays in the users file; the run is short enough for the clock to stand
InitMain ==
    /\ Init
    /\ limits = OneDelay
    /\ \A u \in UserNames : u \in DOMAIN users /\ users[u] # <<>>

SpecMain == InitMain /\ [][NextMain]_vars

\* the steps of the program that wait for nothing outside it: no command
\* arrives, no signal, no tick
MainSteps ==
    \/ TickerCollect
    \/ \E w \in 1..Workers : Hand(w) \/ Send(w) \/ WorkerExit(w)
    \/ \E j \in 1..CmdWorkers : CmdLock(j) \/ CmdCall(j) \/ CmdReply(j) \/ CmdExit(j)
    \/ ServeCancel
    \/ MainWaitDB
    \/ MainWaitCmd
    \/ MainClose

\* The program does not stop while one of its steps can be taken: transport
\* sends return and the scheduler runs what can run. The select of the
\* ticker goroutine picks among its ready cases at random, so ctx.Done() is
\* taken in the end although the ticker keeps firing.
FairMain == WF_vars(MainSteps) /\ SF_vars(ProducerDone)

SpecMainFair == SpecMain /\ FairMain

\* ------------------------------------------- the messages of one process run
\* Next to the Storage, sv keeps what notifications has returned since the
\* process started: sent holds user, event, lead-time and announced start of
\* every message, twice says whether a call has returned one that was there.
Sent == IF sv = SvIdle THEN {} ELSE sv.sent
Twice == sv # SvIdle /\ sv.twice

\* user, event, lead-time and start of the message of entry id
Announced(id) == <<id[1], id[2], id[3], ts[id] + id[3]>>

MaxSent == 2        \* the messages of a run

\* Storage.notifications, and its messages recorded
CollectRecorded ==
    /\ Cardinality(Sent) + DuePrefix(items, ts, clock) <= MaxSent
    /\ notificationsCall
    /\ LET n == DuePrefix(items, ts, clock)
           new == {Announced(items[k]) : k \in 1..n}
       IN  sv' = [pc |-> "sent",
                  sent |-> Sent \cup new,
                  twice |-> \/ Twice
                            \/ new \cap Sent # {}
                            \/ Cardinality(new) < n]

\* a parameter text of /set that Set accepts and one it refuses
SentInputs == {<<"2">>, <<"x">>}

NextSent ==
    \/ \E u \in UserNames : Start(u)
    \/ \E u \in UserNames : Stop(u)
    \/ \E u \in UserNames, v \in SentInputs : Set(u, v)
    \/ CollectRecorded
    \/ Tick

\* the limits section under which Set can succeed, and a users file with
\* one user
InitSent == Init /\ limits = OneDelay /\ DOMAIN users = {<<"a">>}

SpecSent == InitSent /\ [][NextSent]_vars

\* ------------------------------------------------- nextAlarm on its own
DayLen == 3         \* a day, in time units

InitNA ==
    /\ na \in [phase : {"input"}, alarm : 0..MaxAnchor, dt : 0..MaxNow,
               offset : 1..MaxPeriod, tz : {"utc", "dst"}, res : {0}, again : {0}]
    /\ events = <<>>
    /\ limits = [Users |-> 1, Delays |-> 1, MinDelay |-> 1, MaxDelay |-> 1]
    /\ users = <<>>
    /\ userIdx = <<>>
    /\ items = <<>>
    /\ ts = <<>>
    /\ file = <<>>
    /\ clock = 0
    /\ last = Ret("New", "", <<>>)
    /\ sv = SvIdle

\* nextAlarm(alarm, dt, offset)
Compute ==
    /\ na.phase = "input"
    /\ na' = [na EXCEPT !.phase = "once",
                        !.res = nextAlarm(na.alarm, na.dt, na.offset, na.tz)]
    /\ UNCHANGED <<events, limits, users, userIdx, items, ts, file, clock, last, sv>>

\* nextAlarm(nextAlarm(alarm, dt, offset), dt, offset)
Recompute ==
    /\ na.phase = "once"
    /\ na' = [na EXCEPT !.phase = "twice",
                        !.again = nextAlarm(na.res, na.dt, na.offset, na.tz)]
    /\ UNCHANGED <<events, limits, users, userIdx, items, ts, file, clock, last, sv>>

NextNA == Compute \/ Recompute

SpecNA == InitNA /\ [][NextNA]_vars

\* ------------------------------------------- an event with a period of a day
\* one event of the zone "dst" that comes back every day
DailyEvent == <<[base |-> 1, period |-> DayLen, tz |-> "dst"]>>

InitDaily ==
    \E p \in InitProfiles : InitWith([events |-> DailyEvent, limits |-> OneDelay], p)

SpecDaily == InitDaily /\ [][Next]_vars

\* ------------------------------------------------- Event.Init on its own
Hour == 1           \* time.Hour, in time units
dayHours == Hour * DayLen

\* time.ParseDuration for the texts of one segment: an optional sign, an
\* unsigned decimal number and the unit "h"; "0" needs no unit
ParseDuration(s) ==
    LET signed == s # <<>> /\ Head(s) \in {"-", "+"}
        body == IF signed THEN Tail(s) ELSE s
        sign == IF signed /\ Head(s) = "-" THEN 0 - 1 ELSE 1
    IN  IF body = <<"0">> THEN [ok |-> TRUE, val |-> 0]
        ELSE IF body = <<>> \/ body[Len(body)] # "h" THEN [ok |-> FALSE, val |-> 0]
        ELSE LET a == Atoi(SubSeq(body, 1, Len(body) - 1))
             IN  [ok |-> a.ok, val |-> sign * a.val * Hour]

\* time.LoadLocation: the zones that are known
Locations == {"utc", "dst"}

\* the texts tried for Period and StartHour, and the other fields
PeriodTexts ==
    {<<"2", "h">>, <<"3", "h">>, <<"0", "h">>, <<"0">>, <<"-", "2", "h">>, <<"2">>, <<"x">>}
StartHourTexts ==
    {<<"0", "h">>, <<"1", "h">>, <<"3", "h">>, <<"4", "h">>, <<"-", "1", "h">>, <<"h">>}
TimeZones == Locations \cup {"nowhere"}
WeekdayDiffs == {0 - 1, 0, 1}        \* int(e.Weekday - w)

\* Event.validate
validate(e) ==
    IF e.TimeZone \notin Locations
    THEN [err |-> "parse zone", offset |-> 0, startOffset |-> 0]
    ELSE LET offset == ParseDuration(e.Period)
             startOffset == ParseDuration(e.StartHour)
         IN  IF ~offset.ok
             THEN [err |-> "parse event", offset |-> 0, startOffset |-> 0]
             ELSE IF ~startOffset.ok
             THEN [err |-> "parse time", offset |-> offset.val, startOffset |-> 0]
             ELSE IF startOffset.val < 0 \/ startOffset.val > dayHours
             THEN [err |-> "invalid time", offset |-> offset.val,
                   startOffset |-> startOffset.val]
             ELSE [err |-> "", offset |-> offset.val, startOffset |-> startOffset.val]

\* time.Date(now.Year(), now.Month(), now.Day(), 0, 0, 0, 0, location)
Today(tz, now) == now - ((now + ZoneOffset(tz, now)) % DayLen)

\* time.Time.AddDate(0, 0, days): the same wall clock, days later
AddDate(tz, t, days) ==
    LET wall == t + ZoneOffset(tz, t) + days * DayLen
    IN  wall - ZoneOffset(tz, wall - ZoneOffset(tz, t))

\* Event.Init: the error it returns, whether it panics, and the fields it
\* leaves in the event. nextAlarm divides by the period when the alarm is
\* not after now: integer division by zero panics.
EventInitFull(e, now) ==
    LET v == validate(e)
        alarmTime == Today(e.TimeZone, now) + v.startOffset
        base == AddDate(e.TimeZone, alarmTime, e.addDays)
    IN  IF v.err # ""
        THEN [err |-> v.err, panic |-> FALSE, startOffset |-> v.startOffset,
              offset |-> v.offset, alarm |-> 0]
        ELSE IF v.offset = 0 /\ ~(base > now)
        THEN [err |-> "", panic |-> TRUE, startOffset |-> v.startOffset,
              offset |-> v.offset, alarm |-> 0]
        ELSE [err |-> "", panic |-> FALSE, startOffset |-> v.startOffset,
              offset |-> v.offset,
              alarm |-> nextAlarm(base, now, v.offset, e.TimeZone)]

NoEvent == [err |-> "none"]

InitEvent ==
    /\ na \in [phase : {"event"}, Period : PeriodTexts, StartHour : StartHourTexts,
               TimeZone : TimeZones, addDays : WeekdayDiffs, now : 0..MaxNow,
               res : {NoEvent}]
    /\ events = <<>>
    /\ limits = [Users |-> 1, Delays |-> 1, MinDelay |-> 1, MaxDelay |-> 1]
    /\ users = <<>>
    /\ userIdx = <<>>
    /\ items = <<>>
    /\ ts = <<>>
    /\ file = <<>>
    /\ clock = 0
    /\ last = Ret("New", "", <<>>)
    /\ sv = SvIdle

\* e.Init() in config.New
EventInitCall ==
    /\ na.phase = "event"
    /\ na' = [na EXCEPT !.phase = "inited", !.res = EventInitFull(na, na.now)]
    /\ UNCHANGED <<events, limits, users, userIdx, items, ts, file, clock, last, sv>>

NextEvent == EventInitCall

SpecEvent == InitEvent /\ [][NextEvent]_vars

\* ------------------------------------------------------------------ claims
\* C1: whenever the Storage lock is free, the global entry list is sorted
\* ascending by firing instant.
ItemsSorted ==
    \A i \in 1..Len(items) : \A j \in i..Len(items) : ts[items[i]] <= ts[items[j]]

\* a reorder by notifications: entries were sent and the list holds entries
\* with different instants
SortedAfterAdvance ==
    /\ last.op = "notifications"
    /\ Len(last.out) >= 1
    /\ \E i, j \in 1..Len(items) : ts[items[i]] < ts[items[j]]

\* the delay tokens of a raw parameter text, as the claims read them
Tokens(v) == Split(Trim(v), " ")
TokenValues(v) == {Atoi(Tokens(v)[i]).val : i \in DOMAIN Tokens(v)}
ValidDelays(v, l) ==
    /\ \A i \in DOMAIN Tokens(v) :
          /\ Atoi(Tokens(v)[i]).ok
          /\ Atoi(Tokens(v)[i]).val >= l.MinDelay
          /\ Atoi(Tokens(v)[i]).val <= l.MaxDelay
    /\ Cardinality(TokenValues(v)) <= l.Delays

\* C2: Configure of a subscribed user with every token an integer in
\* [minDelay, maxDelay] and at most maxCount distinct values is not rejected
\* by validation, and the lead-times become the distinct values, ascending.
ConfigureAcceptsValid ==
    [][\A u \in UserNames, v \in RawInputs :
          (u \in DOMAIN users /\ ValidDelays(v, limits) /\ Set(u, v))
              => (last'.err \in {"", "flush"} /\ users'[u] = SortInts(TokenValues(v)))]_vars

\* the message multiset of a call equals that of a set of entries
SameMessages(out, ids) ==
    /\ Len(out) = Cardinality(ids)
    /\ \A k \in DOMAIN out :
          Cardinality({m \in DOMAIN out : out[m] = out[k]})
              = Cardinality({id \in ids : Message(id, ts[id]) = out[k]})

\* C3: CollectDue emits one message for exactly the entries of the global
\* list whose instant is strictly before now, advances each of them by its
\* event's period, and leaves the other entries, the user map and the number
\* of entries unchanged.
CollectDueExact ==
    [][last'.op = "notifications" =>
          LET due == {id \in Range(items) : ts[id] < clock}
          IN  /\ SameMessages(last'.out, due)
              /\ DOMAIN ts' = DOMAIN ts
              /\ \A id \in DOMAIN ts :
                    ts'[id] = IF id \in due THEN ts[id] + events[id[2]].offset ELSE ts[id]
              /\ users' = users
              /\ Len(items') = Len(items)
              /\ Range(items') = Range(items)]_vars

\* a call that sent some entries and left others
CollectedSome ==
    /\ last.op = "notifications"
    /\ Len(last.out) >= 2
    /\ Len(items) > Len(last.out)

\* C4: nextAlarm(anchor, now, period) >= now, across zone offset changes too.
NextAlarmNotBeforeNow == na.phase # "input" => na.res >= na.dt

\* C5: nextAlarm(nextAlarm(a, n, p), n, p) = nextAlarm(a, n, p).
NextAlarmIdempotent == na.phase = "twice" => na.again = na.res

\* anchor + k*period for the smallest k >= 0 that reaches now
LeastOccurrence(alarm, dt, offset) ==
    alarm + offset * (CHOOSE k \in 0..(MaxNow + 1) :
                          /\ alarm + k * offset >= dt
                          /\ \A m \in 0..(k - 1) : alarm + m * offset < dt)

\* C6 as stated: with the same zone offset at the anchor and at the result,
\* the result is the least occurrence of the anchor at or after now.
LeastOccurrenceSameOffsetAtResult ==
    (na.phase # "input" /\ ZoneOffset(na.tz, na.alarm) = ZoneOffset(na.tz, na.res))
        => na.res = LeastOccurrence(na.alarm, na.dt, na.offset)

\* C6: with the same zone offset at the anchor and at the least occurrence
\* of the anchor at or after now, the result is that occurrence.
LeastOccurrenceSameOffset ==
    (/\ na.phase # "input"
     /\ ZoneOffset(na.tz, na.alarm)
            = ZoneOffset(na.tz, LeastOccurrence(na.alarm, na.dt, na.offset)))
        => na.res = LeastOccurrence(na.alarm, na.dt, na.offset)

\* now falls exactly on a later occurrence, which is returned
OnOccurrence ==
    /\ na.phase # "input"
    /\ na.dt > na.alarm
    /\ (na.dt - na.alarm) % na.offset = 0
    /\ ZoneOffset(na.tz, na.alarm) = ZoneOffset(na.tz, na.dt)
    /\ na.res = na.dt

\* local wall-clock time of day
WallClock(tz, t) == (t + ZoneOffset(tz, t)) % DayLen

\* a whole-day period and a now on the other side of a transition
AcrossTransition ==
    /\ na.phase # "input"
    /\ na.offset % DayLen = 0
    /\ ZoneOffset(na.tz, na.alarm) # ZoneOffset(na.tz, na.dt)

\* C7 as stated: for a whole-day period and a now across a transition, the
\* result has the wall-clock time of day of the anchor.
WallClockKept ==
    AcrossTransition => WallClock(na.tz, na.res) = WallClock(na.tz, na.alarm)

\* the correction moved the result back over the transition it had crossed
BackOverTransition ==
    /\ ZoneOffset(na.tz, na.res) = ZoneOffset(na.tz, na.alarm)
    /\ ZoneOffset(na.tz, LeastOccurrence(na.alarm, na.dt, na.offset))
           # ZoneOffset(na.tz, na.alarm)

\* C7: the same, unless the corrected instant falls back over the transition.
WallClockKeptOffGap ==
    (AcrossTransition /\ ~BackOverTransition)
        => WallClock(na.tz, na.res) = WallClock(na.tz, na.alarm)

\* a result shifted by the offset difference
ShiftedResult ==
    /\ AcrossTransition
    /\ ~BackOverTransition
    /\ na.res # LeastOccurrence(na.alarm, na.dt, na.offset)

\* C8: after a successful Subscribe, Unsubscribe or Configure, loading the
\* users file succeeds and gives exactly the current profiles.
RestartRebuildsProfiles ==
    (last.op \in {"Start", "Stop", "Set"} /\ last.err = "")
        => LET ld == loadUsers(file)
           IN  /\ ld.err = ""
               /\ {<<ld.users[i].name, ld.users[i].delays>> : i \in DOMAIN ld.users}
                      = {<<u, users[u]>> : u \in DOMAIN users}

\* C9: the user map, the per-user index and the global list agree.
IndexAgreement ==
    /\ DOMAIN userIdx = DOMAIN users
    /\ \A id \in Range(items) : id[1] \in DOMAIN users
    /\ Cardinality(Range(items)) = Len(items)
    /\ \A u \in DOMAIN users :
          /\ Range(userIdx[u]) = {id \in Range(items) : id[1] = u}
          /\ Len(userIdx[u]) = Len(events) * Len(users[u])
          /\ {<<id[2], id[3]>> : id \in Range(userIdx[u])}
                 = (1..Len(events)) \X Range(users[u])

\* C10: a second CollectDue with the same now and no change in between
\* returns nothing.
SecondCollectEmpty ==
    [][(last.op = "notifications" /\ last'.op = "notifications")
          => last'.out = <<>>]_vars

\* the registry: profiles, per-user index, global list, timestamps, file
registry == <<users, userIdx, items, ts, file>>

\* C11: Start for a user that is already in the registry returns ErrKnownUser
\* and changes nothing, in every state, also when the registry is full.
SubscribeKnownFails ==
    [][\A u \in UserNames :
          (u \in DOMAIN users /\ Start(u))
              => (last'.err = "known user" /\ UNCHANGED registry)]_vars

\* C12 as stated: Set for a user that is not in the registry returns
\* ErrUnknownUser for every parameter text, the empty one included, and
\* changes nothing.
ConfigureUnknownFails ==
    [][\A u \in UserNames, v \in RawInputs :
          (u \notin DOMAIN users /\ Set(u, v))
              => (last'.err = "unknown user" /\ UNCHANGED registry)]_vars

\* C12: Set for a user that is not in the registry changes nothing and
\* returns ErrSetUser for the empty parameter text, ErrUnknownUser for every
\* other one.
ConfigureUnknownOrEmptyFails ==
    [][\A u \in UserNames, v \in RawInputs :
          (u \notin DOMAIN users /\ Set(u, v))
              => /\ last'.err = IF v = <<>> THEN "no params" ELSE "unknown user"
                 /\ UNCHANGED registry]_vars

\* Set has refused a user it does not know
UnknownRefused ==
    /\ last.op = "Set"
    /\ last.err = "unknown user"
    /\ DOMAIN users # UserNames

\* the errors Set returns for a parameter text it does not accept
ValidationErrors == {"no params", "not integer", "too small", "too large", "too many"}
AllIntegers(v) == \A i \in DOMAIN Tokens(v) : Atoi(Tokens(v)[i]).ok

\* the texts C13 lists, for every limits section
InvalidInputs ==
    [l \in {c.limits : c \in Configs} |->
        {v \in RawInputs : v = <<>> \/ ~ValidDelays(v, l)}]

\* the values of every text whose tokens are all integers
InputValues ==
    [v \in {x \in RawInputs : AllIntegers(x)} |-> TokenValues(v)]

Instant(f) == f[1] - f[2]

\* C14: Get for a subscribed user returns that user's firing instants in
\* ascending order, in every state, also after notifications has advanced
\* entries; for a user that is not in the registry it returns
\* ErrUnknownUser; it changes nothing.
DescribeAscending ==
    [][\A u \in UserNames :
          Get(u) =>
              /\ UNCHANGED <<registry, events, limits>>
              /\ IF u \notin DOMAIN users
                 THEN last'.err = "unknown user"
                 ELSE /\ last'.err = ""
                      /\ \A i, j \in DOMAIN last'.out.lines :
                            i <= j => Instant(last'.out.lines[i])
                                          <= Instant(last'.out.lines[j])]_vars

\* one event, two users with two lead-times each, and all four entries due
TwoByTwoDue ==
    /\ Len(events) = 1
    /\ DOMAIN users = UserNames
    /\ \A u \in UserNames : Len(users[u]) = 2
    /\ Len(items) = 4
    /\ \A k \in 1..4 : ts[items[k]] < clock

EntriesOf(s, w) == SelectSeq(s, LAMBDA id : id[1] = w)

\* C16: Stop for a subscribed user removes the profile and every entry of
\* that user from the per-user index and the global list and leaves the
\* profile, the entries and the instants of every other user as they were;
\* for a user that is not in the registry it returns ErrUnknownUser and
\* changes nothing.
UnsubscribeRemovesOnlyUser ==
    [][last'.op = "Stop" =>
          \A u \in UserNames :
              Stop(u) =>
                  IF u \notin DOMAIN users
                  THEN last'.err = "unknown user" /\ UNCHANGED registry
                  ELSE /\ u \notin DOMAIN users'
                       /\ u \notin DOMAIN userIdx'
                       /\ EntriesOf(items', u) = <<>>
                       /\ DOMAIN users' = DOMAIN users \ {u}
                       /\ \A w \in DOMAIN users' :
                             /\ users'[w] = users[w]
                             /\ userIdx'[w] = userIdx[w]
                             /\ EntriesOf(items', w) = EntriesOf(items, w)
                             /\ \A id \in Range(userIdx[w]) \cup Range(EntriesOf(items, w)) :
                                   ts'[id] = ts[id]]_vars

\* a user with entries was removed while another user with entries stays
RemovedOneOfTwo ==
    /\ last.op = "Stop"
    /\ last.err = ""
    /\ Cardinality(DOMAIN users) = 1
    /\ items # <<>>

\* C17: a profile is added only by a Start that finds fewer profiles than
\* limits.Users, and no step takes the number of profiles from at most
\* limits.Users to more; so from an empty registry no interleaving of Start,
\* Stop and Set reaches more than limits.Users profiles.
ProfilesWithinLimit ==
    [][/\ DOMAIN users' \ DOMAIN users # {}
            => /\ last'.op = "Start"
               /\ Cardinality(DOMAIN users) < limits.Users
               /\ Cardinality(DOMAIN users') = Cardinality(DOMAIN users) + 1
       /\ Cardinality(DOMAIN users) <= limits.Users
            => Cardinality(DOMAIN users') <= limits.Users]_vars

\* a Start has filled the registry
RegistryFilled ==
    /\ last.op = "Start"
    /\ last.err = ""
    /\ last.pre.user \in DOMAIN users
    /\ Cardinality(DOMAIN users) = limits.Users

\* a Start that succeeds adds an empty profile and an empty index for its
\* user and leaves the global list and the timestamps alone
SubscribeAddsEmpty ==
    last'.op = "Start" =>
        \A u \in UserNames :
            (Start(u) /\ last'.err = "") =>
                /\ users' = Put(users, u, <<>>)
                /\ userIdx' = Put(userIdx, u, <<>>)
                /\ items' = items
                /\ ts' = ts

\* a Start of a user has succeeded and a Stop of that user succeeds now
UnsubscribeFollows ==
    /\ last.op = "Start"
    /\ last.err = ""
    /\ last'.op = "Stop"
    /\ last'.err = ""
    /\ Stop(last.pre.user)

\* C18 as stated: a successful Start of a new user adds an empty profile
\* and no entries, and a Stop of that user that follows puts the user map,
\* the per-user index, the global list and the rows of the file back to
\* what they were before the Start.
SubscribeUnsubscribeRestores ==
    [][/\ SubscribeAddsEmpty
       /\ UnsubscribeFollows =>
             /\ users' = last.pre.users
             /\ userIdx' = last.pre.userIdx
             /\ items' = last.pre.items
             /\ ts' = last.pre.ts
             /\ file' = last.pre.file]_vars

\* C18: a successful Start of a new user adds an empty profile and no
\* entries, and a Stop of that user that follows puts the user map, the
\* per-user index and the global list back to what they were before the
\* Start, and leaves in the file the rows of that user map: the rows the
\* file had before the Start if it was up to date then.
SubscribeUnsubscribeRestoresMaps ==
    [][/\ SubscribeAddsEmpty
       /\ UnsubscribeFollows =>
             /\ users' = last.pre.users
             /\ userIdx' = last.pre.userIdx
             /\ items' = last.pre.items
             /\ ts' = last.pre.ts
             /\ file' = FlushRows(last.pre.users)
             /\ last.pre.file = FlushRows(last.pre.users) => file' = last.pre.file]_vars

\* a user was added next to a user that has entries
SubscribedNextToEntries ==
    /\ last.op = "Start"
    /\ last.err = ""
    /\ users[last.pre.user] = <<>>
    /\ userIdx[last.pre.user] = <<>>
    /\ items # <<>>
    /\ last.pre.file = FlushRows(last.pre.users)

\* a call whose rewrite of the file fails keeps what it has done in memory
\* and leaves the file as it was
FailedFlushKeeps ==
    last'.err = "flush" =>
        /\ file' = file
        /\ last'.op \in {"Start", "Stop", "Set", "Close"}
        /\ last'.op = "Start" =>
              \A u \in UserNames : Start(u) => (u \in DOMAIN users' /\ users'[u] = <<>>)
        /\ last'.op = "Stop" =>
              \A u \in UserNames : Stop(u) => (u \notin DOMAIN users' /\ u \in DOMAIN users)
        /\ last'.op = "Set" =>
              \A u \in UserNames, v \in DOMAIN InputValues :
                  Set(u, v) => users'[u] = SortInts(InputValues[v])

\* C19: when the rewrite of the file fails in Start, Stop or Set, the call
\* returns an error and keeps its change of the maps: the profile stays
\* added, stays removed or keeps its new delays, and a Start of the same
\* user that follows a failed one returns ErrKnownUser.
PersistenceFailureKeeps ==
    [][/\ FailedFlushKeeps
       /\ (last.op = "Start" /\ last.err = "flush" /\ Start(last.pre.user))
              => last'.err = "known user"]_vars

\* where message uid is: still in the slice of the ticker goroutine, in
\* the hands of a worker, or tried
Pending(uid) == IF uid > Len(sv.tried) - Len(sv.batch) THEN 1 ELSE 0
Holders(uid) == {w \in 1..Workers : sv.hold[w] # NoMsg /\ sv.hold[w].uid = uid}

\* every message is in one place, and once every worker has left every
\* message has been tried
EachMessageOnce ==
    sv # SvIdle =>
        /\ \A uid \in DOMAIN sv.tried :
              /\ Pending(uid) + Cardinality(Holders(uid)) + sv.tried[uid] = 1
              /\ sv.exited = 1..Workers => sv.tried[uid] = 1
        /\ sv.pc = "done" => sv.batch = <<>>

\* C20: every message notifications returns in Serve is received by one
\* worker, as it was returned, and passed to Send once, whether the workers
\* are busy or ctx is cancelled while the slice is being sent; a Send,
\* failed or not, is not repeated and changes no entry.
MessagesSentOnce ==
    [][/\ EachMessageOnce'
       /\ (sv # SvIdle /\ sv.pc = "select" /\ sv'.pc # "done" /\ last' # last)
              => (sv'.batch = last'.out
                    /\ Len(sv'.tried) = Len(sv.tried) + Len(last'.out))
       /\ (sv # SvIdle /\ sv.pc = "push") =>
              \A w \in 1..Workers :
                  sv'.hold[w] # sv.hold[w] /\ sv.hold[w] = NoMsg
                      => sv'.hold[w].msg = Head(sv.batch)
       /\ (sv # SvIdle /\ sv'.tried # sv.tried /\ Len(sv'.tried) = Len(sv.tried))
              => UNCHANGED <<users, userIdx, items, ts, file>>]_vars

\* ctx was cancelled while a slice was being sent, a Send has failed, and
\* all workers have left
CancelledWhilePushing ==
    /\ sv # SvIdle
    /\ sv.cancel = "push"
    /\ sv.exited = 1..Workers
    /\ Len(sv.tried) >= 2
    /\ sv.failed

\* commands is closed and ctx is cancelled
ShutdownBegun == sv # SvIdle /\ sv.cmdClosed /\ sv.cancel # "no"

\* the ticker goroutine has returned and closed notifier, every worker of
\* both pools has left, main has passed both Wait calls and Close has run
ShutdownDone ==
    /\ sv # SvIdle
    /\ sv.pc = "done"
    /\ sv.closed
    /\ sv.batch = <<>>
    /\ sv.exited = 1..Workers
    /\ sv.cmdExited = 1..CmdWorkers
    /\ sv.main = "stopped"
    /\ sv.lock = FreeLock
    /\ last.op = "Close"

\* C21: once commands is closed and ctx is cancelled, and every transport
\* send returns, in the end the ticker goroutine has returned and closed
\* notifier, every notification worker and every command worker has left,
\* both Wait calls of main have returned and Close has run.
ShutdownTerminates == ShutdownBegun ~> ShutdownDone

\* the program has stopped after commands were handled and messages sent
StoppedAfterWork ==
    /\ ShutdownDone
    /\ sv.sentCmds >= 1
    /\ Len(sv.tried) >= 2
    /\ sv.cancel = "push"

\* the ticker goroutine has returned, every delivery worker and every command
\* worker has left, nobody holds a message, a package or the lock
AllLeft ==
    /\ sv.pc = "done"
    /\ sv.batch = <<>>
    /\ sv.exited = 1..Workers
    /\ \A w \in 1..Workers : sv.hold[w] = NoMsg
    /\ sv.cmdExited = 1..CmdWorkers
    /\ \A j \in 1..CmdWorkers : sv.cmd[j].pc = "range"
    /\ sv.serve = "done"
    /\ sv.lock = FreeLock

\* C22: when main is at s.Close() or past it, the ticker goroutine has made
\* its last call of notifications and returned, and every delivery worker and
\* command worker has exited; the only step taken from there is Close itself,
\* and no step follows it.
CloseAfterAll ==
    [][/\ (sv' # SvIdle /\ sv'.main \in {"close", "stopped"}) => AllLeft'
       /\ (sv # SvIdle /\ sv.main = "close")
              => (last'.op = "Close" /\ sv'.main = "stopped")
       /\ ~(sv # SvIdle /\ sv.main = "stopped")]_vars

\* main has closed the Storage after every command of the run and after
\* messages were delivered
ClosedAfterCommands ==
    /\ sv # SvIdle
    /\ sv.main = "stopped"
    /\ last.op = "Close"
    /\ sv.sentCmds = MaxCmds
    /\ sv.tried # <<>>
    /\ sv.cancel = "locked"

\* the goroutines that hold the lock of the Storage
LockHolders == {sv.lock.writer} \cup sv.lock.readers

\* C23: the lock of the Storage is held by the ticker goroutine exactly while
\* it is inside notifications and by a command worker exactly while it is
\* inside the Storage method of its handler, and by nobody else: the ticker
\* goroutine does not hold it when it pushes a message, a command worker does
\* not hold it when it sends its reply, and a delivery worker never holds it.
NoSendUnderLock ==
    sv # SvIdle =>
        /\ LockHolders \subseteq {Nobody, TickerId} \cup (1..CmdWorkers)
        /\ TickerId \in LockHolders <=> sv.pc = "locked"
        /\ \A j \in 1..CmdWorkers : j \in LockHolders <=> sv.cmd[j].pc = "locked"
        /\ sv.pc = "push" => TickerId \notin LockHolders
        /\ \A j \in 1..CmdWorkers : sv.cmd[j].pc = "reply" => j \notin LockHolders

\* a command worker sends its reply and a delivery worker its message while
\* the ticker goroutine is inside notifications
SendsBesideLock ==
    /\ sv # SvIdle
    /\ sv.pc = "locked"
    /\ \E j \in 1..CmdWorkers : sv.cmd[j].pc = "reply"
    /\ \E w \in 1..Workers : sv.hold[w] # NoMsg

\* Event.Init has accepted the event
Accepted == na.phase = "inited" /\ ~na.res.panic /\ na.res.err = ""

\* the part of C24 on the time of day: an accepted event has it in [0, 24h]
AcceptedTimeInRange ==
    Accepted => (na.res.startOffset >= 0 /\ na.res.startOffset <= dayHours)

\* C24: Event.Init does not panic, every event it accepts has its time of
\* day in [0, 24h] and a period above zero, and an event whose period parses
\* to zero or less is refused with an error.
AcceptedEventValid ==
    na.phase = "inited" =>
        /\ ~na.res.panic
        /\ na.res.err = "" =>
              /\ na.res.startOffset >= 0
              /\ na.res.startOffset <= dayHours
              /\ na.res.offset > 0
        /\ (ParseDuration(na.Period).ok /\ ParseDuration(na.Period).val <= 0)
              => na.res.err # ""

\* C25: within one process run no two messages returned by notifications
\* have the same user, event, lead-time and event start, whatever Start, Stop
\* and Set calls lie between them.
NoMessageTwice == ~Twice

\* the start an entry announces: its firing instant plus its lead-time
AnnouncedStart(id) == ts[id] + id[3]

\* C26: in every state the start every entry of the global list announces is
\* an instant nextAlarm returns for the alarm of its event, and has the local
\* wall-clock time of that alarm, also after notifications has moved the
\* entry one period on across a change of the zone offset.
AdvanceAgrees ==
    \A id \in Range(items) :
        LET e == events[id[2]]
        IN  /\ \E dt \in 0..(AnnouncedStart(id) + 1) :
                  AnnouncedStart(id) = nextAlarm(e.alarm, dt, e.offset, e.tz)
            /\ WallClock(e.tz, AnnouncedStart(id)) = WallClock(e.tz, e.alarm)
====
